---- MODULE Spec2Model ----
(***************************************************************************)
(* The VoiceAgent widget of src/components/VoiceAgent.tsx as a state       *)
(* machine: the status value, the transcript, the playback cursor and the  *)
(* handle set, and every handler that touches them.  JavaScript runs one   *)
(* callback at a time; a handler is cut at each `await` into segments, and *)
(* the statements of the running segment that change shared state are      *)
(* executed one by one from the continuation `run`, during which no other  *)
(* callback can start.                                                     *)
(***************************************************************************)
EXTENDS Integers, Sequences, FiniteSets

\* ------------------------------------------------------------------ bounds
MaxTime == 1         \* Spec: last value of the output clock
MaxChunks == 1       \* Spec: audio payloads the backend delivers in one session
MaxTurns == 1        \* Spec: invocations of handleSendText with a non-blank input
MaxFrag == 1         \* Spec: fragments of one streamed reply
MaxAudioTime == 2    \* SpecAudio: last value of the output clock
MaxAudioChunks == 2  \* SpecAudio: audio payloads the backend delivers
MaxTextTime == 1     \* SpecTurns: last value of the output clock
MaxTextChunks == 1   \* SpecTurns: audio payloads the backend delivers
MaxTextTurns == 2    \* SpecTurns: invocations of handleSendText with a non-blank input
MaxTextFrag == 1     \* SpecTurns: fragments of one streamed reply
MaxExitTime == 1     \* SpecExit: last value of the output clock
MaxExitChunks == 1   \* SpecExit: audio payloads the backend delivers
MaxSoloTime == 2     \* SpecSolo: last value of the output clock
MaxSoloChunks == 1   \* SpecSolo: audio payloads the backend delivers
MaxSoloTurns == 1    \* SpecSolo: invocations of handleSendText with a non-blank input
MaxSoloFrag == 2     \* SpecSolo: fragments of one streamed reply
MaxMountTurns == 1   \* SpecMount: invocations of handleSendText with a non-blank input
MaxMountFrag == 1    \* SpecMount: fragments of one streamed reply
MaxFairTime == 2     \* SpecFair: last value of the output clock
MaxFairChunks == 1   \* SpecFair: audio payloads the backend delivers
MaxRevTurns == 2     \* SpecRev2: invocations of handleSendText with a non-blank input
MaxRevFrag == 1      \* SpecRev2: fragments of one streamed reply

\* --------------------------------------------------------------- constants
WELCOME_TEXT == <<"Welcome">>
LINK_FAILURE_TEXT == <<"StrategicLinkFailure">>
LINE_INTERRUPTED_TEXT == <<"CommunicationLineInterrupted">>
LINK_DROPPED_TEXT == <<"StrategicLinkDropped">>
LINE_RESYNC_TEXT == <<"CommunicationLineInterruptedResyncingFeed">>

AgentStatus == {"connecting", "listening", "processing", "awaiting", "buffering", "speaking"}

\* The characters a user can type: a blank and a letter.
InputTexts == {<<>>, <<" ">>, <<" ", "a">>}
\* The text of a streamed chunk; <<>> is a chunk whose text is undefined.
Fragments == {<<>>, <<"x">>, <<"y">>}
Durations == {1, 2}

VARIABLES
  status,            \* useState<AgentStatus>
  micEnabled,        \* useState(preferredMode === 'voice')
  transcriptions,    \* useState<Transcription[]>
  streamingResponse, \* useState('')
  textInput,         \* useState('')
  chatRef,           \* TRUE when chatRef.current holds a Chat
  ctxOut,            \* audioContextOutRef: "none", "suspended" or "running"
  nextStartTimeRef,  \* the playback cursor
  sourcesRef,        \* ids of the sources in the Set
  streamRef,         \* TRUE when streamRef.current holds a MediaStream
  sessionRef,        \* TRUE when sessionRef.current holds the live session
  initialized,       \* initialized.current
  apiKey,            \* process.env.API_KEY is set
  clock,             \* ctx.currentTime of the output context
  nodes,             \* the AudioBufferSourceNodes whose onended can still fire
  nextSrc,           \* number of sources created so far
  audioCount,        \* audio payloads received from the backend so far
  welcomeTimer,      \* the setTimeout of the greeting is pending
  live,              \* position of establishSecureLine / the live session
  liveDecoding,      \* onmessage invocations suspended at decodeAudioData
  ttsTasks,          \* playTTS invocations suspended at an await: pc -> count
  sendTasks,         \* handleSendText invocations suspended at an await
  turns,             \* handleSendText invocations that passed the blank check
  run,               \* statements of the running segment still to execute
  cur,               \* the handleSendText invocation the running segment belongs to
  schedLog,          \* history: the chunks scheduled since the last stopAllAudio
  interrupted,       \* history: stopAllAudio has run in this session
  emptied,           \* history: the running callback took the handle set from non-empty to empty
  lastOp,            \* history: the last statement or callback that ran
  exited,            \* the component has been unmounted (onExit)
  cleanup,           \* the mount effect's cleanup function is registered
  trackLive,         \* the microphone track of streamRef.current is capturing
  chatsCreated,      \* history: handles ai.chats.create has returned
  decodingMsgs,      \* history: arrival numbers of the messages counted by liveDecoding
  altCursor          \* history: the cursor, were the interruption to reset it to the clock

vars == <<status, micEnabled, transcriptions, streamingResponse, textInput, chatRef, chatsCreated,
          ctxOut, nextStartTimeRef, sourcesRef, streamRef, sessionRef, initialized,
          apiKey, clock, nodes, nextSrc, audioCount, welcomeTimer, live, liveDecoding, decodingMsgs,
          ttsTasks, sendTasks, turns, run, cur, schedLog, interrupted, emptied, lastOp,
          exited, cleanup, trackLive>>

refs == <<chatRef, chatsCreated, ctxOut, streamRef, sessionRef, initialized, apiKey>>
audio == <<nextStartTimeRef, sourcesRef, nodes, nextSrc, schedLog, interrupted, altCursor>>
texts == <<transcriptions, streamingResponse, textInput>>
liveVars == <<live, liveDecoding, decodingMsgs>>
env == <<clock, audioCount, welcomeTimer>>
ui == <<micEnabled, exited, cleanup, trackLive>>

Max(a, b) == IF a >= b THEN a ELSE b

\* String.prototype.trim on a sequence of characters: drop the leading and the
\* trailing blanks.
RECURSIVE TrimStart(_)
TrimStart(s) == IF s # <<>> /\ Head(s) = " " THEN TrimStart(Tail(s)) ELSE s

RECURSIVE TrimEnd(_)
TrimEnd(s) ==
  IF s # <<>> /\ s[Len(s)] = " " THEN TrimEnd(SubSeq(s, 1, Len(s) - 1)) ELSE s

\* Mutant of Trim: the text is taken as typed.
NoTrim(s) == s

Trim(s) == TrimEnd(TrimStart(s))

Entry(t, who) == [text |-> t, type |-> who]

\* Mutant of AppendEntry: the entry is put in front of the log.
PrependEntry(log, e) == <<e>> \o log

\* setTranscriptions(prev => [...prev, entry])
AppendEntry(log, e) == Append(log, e)

NoTask == [id |-> 0, pc |-> "none", msg |-> <<>>, fullText |-> <<>>, n |-> 0, frags |-> <<>>]
Op(name) == [op |-> name, id |-> 0]
Other == Op("other")
Idle == run = <<>>

Init ==
  /\ status = "connecting"
  /\ micEnabled \in BOOLEAN
  /\ transcriptions = <<>>
  /\ streamingResponse = <<>>
  /\ textInput = <<>>
  /\ chatRef = FALSE
  /\ ctxOut = "none"
  /\ nextStartTimeRef = 0
  /\ sourcesRef = {}
  /\ streamRef = FALSE
  /\ sessionRef = FALSE
  /\ initialized = FALSE
  /\ apiKey \in BOOLEAN
  /\ clock = 0
  /\ nodes = {}
  /\ nextSrc = 0
  /\ audioCount = 0
  /\ welcomeTimer = FALSE
  /\ live = "off"
  /\ liveDecoding = 0
  /\ ttsTasks = [pc \in {"synth", "resume", "decode"} |-> 0]
  /\ sendTasks = {}
  /\ turns = 0
  /\ run = <<>>
  /\ cur = NoTask
  /\ schedLog = <<>>
  /\ interrupted = FALSE
  /\ emptied = FALSE
  /\ lastOp = Op("init")
  /\ exited = FALSE
  /\ cleanup = FALSE
  /\ trackLive = FALSE
  /\ chatsCreated = 0
  /\ decodingMsgs = {}
  /\ altCursor = 0

\* ------------------------------------------------------- the audio scheduler

\* Mutant of CursorAfterStop: the interruption leaves the cursor where it was.
KeepCursor == nextStartTimeRef

\* stopAllAudio: stop every source of the set, clear the set, reset the cursor,
\* force 'listening'.  A stopped source still delivers its ended event.
CursorAfterStop == 0

\* Mutant of StopAllAudio: the status is not forced to 'listening'.
StopAllAudioKeepStatus ==
  /\ nodes' = {IF nd.id \in sourcesRef THEN [nd EXCEPT !.st = "stopped"] ELSE nd : nd \in nodes}
  /\ sourcesRef' = {}
  /\ nextStartTimeRef' = CursorAfterStop
  /\ altCursor' = clock
  /\ interrupted' = TRUE
  /\ schedLog' = <<>>
  /\ emptied' = (emptied \/ sourcesRef # {})
  /\ UNCHANGED <<nextSrc, status>>

\* Mutant of StopAllAudio: stop() throws on a source that has finished and
\* nothing catches it, so the call ends before the set is cleared.
StopAllAudioThrows ==
  IF \E nd \in nodes : nd.id \in sourcesRef /\ clock >= nd.start + nd.dur
  THEN UNCHANGED <<nodes, sourcesRef, nextStartTimeRef, status, interrupted, schedLog,
                   emptied, nextSrc, altCursor>>
  ELSE /\ nodes' = {IF nd.id \in sourcesRef THEN [nd EXCEPT !.st = "stopped"] ELSE nd :
                      nd \in nodes}
       /\ sourcesRef' = {}
       /\ nextStartTimeRef' = CursorAfterStop
       /\ altCursor' = clock
       /\ status' = "listening"
       /\ interrupted' = TRUE
       /\ schedLog' = <<>>
       /\ emptied' = (emptied \/ sourcesRef # {})
       /\ UNCHANGED nextSrc

StopAllAudio ==
  /\ nodes' = {IF nd.id \in sourcesRef THEN [nd EXCEPT !.st = "stopped"] ELSE nd : nd \in nodes}
  /\ sourcesRef' = {}
  /\ nextStartTimeRef' = CursorAfterStop
  /\ altCursor' = clock
  /\ status' = "listening"
  /\ interrupted' = TRUE
  /\ schedLog' = <<>>
  /\ emptied' = (emptied \/ sourcesRef # {})
  /\ UNCHANGED nextSrc

\* Mutants of StartTime: the cursor, or the clock, is ignored.
StartTimeNow(now, cursor) == now
StartTimeCursor(now, cursor) == cursor

\* Mutant of StartTime: the cursor is an offset from the clock.
StartTimeSum(now, cursor) == now + cursor

\* const startTime = Math.max(ctx.currentTime, nextStartTimeRef.current)
StartTime(now, cursor) == Max(now, cursor)

\* Mutant of CursorAfter: the cursor is set to the chunk's duration.
CursorAtDuration(startTime, duration) == duration

\* Mutant of CursorAfter: the cursor is set to the chunk's start.
CursorNoAdvance(startTime, duration) == startTime

\* Mutant of CursorAfter: the cursor stops one unit short of the chunk's end.
CursorBeforeEnd(startTime, duration) == startTime + duration - 1

\* nextStartTimeRef.current = startTime + audioBuffer.duration
CursorAfter(startTime, duration) == startTime + duration

\* Mutant of ScheduleChunk: the source is not added to the set.
ScheduleChunkNoAdd(dur, msg) ==
  LET startTime == StartTime(clock, nextStartTimeRef)
      id == nextSrc + 1
  IN /\ nodes' = nodes \cup {[id |-> id, start |-> startTime, dur |-> dur, st |-> "scheduled"]}
     /\ nextStartTimeRef' = CursorAfter(startTime, dur)
     /\ nextSrc' = id
     /\ altCursor' = CursorAfter(StartTime(clock, altCursor), dur)
     /\ schedLog' = Append(schedLog, [start |-> startTime, dur |-> dur, now |-> clock,
                                      alt |-> StartTime(clock, altCursor), altc |-> altCursor,
                                      msg |-> msg])
     /\ UNCHANGED <<interrupted, sourcesRef>>

\* createBufferSource ... source.start(startTime) ... sourcesRef.current.add(source)
ScheduleChunk(dur, msg) ==
  LET startTime == StartTime(clock, nextStartTimeRef)
      id == nextSrc + 1
  IN /\ nodes' = nodes \cup {[id |-> id, start |-> startTime, dur |-> dur, st |-> "scheduled"]}
     /\ nextStartTimeRef' = CursorAfter(startTime, dur)
     /\ sourcesRef' = sourcesRef \cup {id}
     /\ nextSrc' = id
     /\ altCursor' = CursorAfter(StartTime(clock, altCursor), dur)
     /\ schedLog' = Append(schedLog, [start |-> startTime, dur |-> dur, now |-> clock,
                                      alt |-> StartTime(clock, altCursor), altc |-> altCursor,
                                      msg |-> msg])
     /\ UNCHANGED interrupted

\* Mutant of StatusAfterEnded: the ended source leaves the status alone.
StatusKept(set, st) == st

\* source.onended: delete the source; an empty set drives 'listening'.
StatusAfterEnded(set, st) == IF set = {} THEN "listening" ELSE st

OnEnded(nd) ==
  /\ Idle
  /\ nd \in nodes
  /\ \/ nd.st = "stopped"
     \/ nd.st = "scheduled" /\ clock >= nd.start + nd.dur
  /\ nodes' = nodes \ {nd}
  /\ sourcesRef' = sourcesRef \ {nd.id}
  /\ status' = StatusAfterEnded(sourcesRef', status)
  /\ emptied' = (sourcesRef # {} /\ sourcesRef' = {})
  /\ lastOp' = [op |-> IF nd.st = "stopped" THEN "onendedStopped" ELSE "onendedNatural",
                id |-> nd.id]
  /\ UNCHANGED <<ui, texts, refs, nextStartTimeRef, nextSrc, schedLog, interrupted,
                 altCursor, env, liveVars, ttsTasks, sendTasks, turns, run, cur>>

\* The output clock advances.
Tick(maxTime) ==
  /\ Idle
  /\ clock < maxTime
  /\ clock' = clock + 1
  /\ emptied' = FALSE
  /\ lastOp' = Other
  /\ UNCHANGED <<status, ui, texts, refs, audio, audioCount, welcomeTimer, liveVars,
                 ttsTasks, sendTasks, turns, run, cur>>

\* --------------------------------------------------------- session start-up

\* initStrategicEngine: FALSE without a key or when creating the chat throws.
InitStrategicEngineResults == IF apiKey THEN {TRUE, FALSE} ELSE {FALSE}

\* The first part of playTTS, up to its await of generateContent.
PlayTTSStart ==
  /\ status' = "buffering"
  /\ ttsTasks' = [ttsTasks EXCEPT !["synth"] = @ + 1]

\* Mutant of EffectRuns: the effect does not look at the flag.
EffectRunsAlways == TRUE

\* if (initialized.current) return
EffectRuns == ~initialized

\* The body of the mount effect after the check of the flag, up to the first
\* await of establishSecureLine, for the value `mic` of micEnabled that the
\* effect closes over and the outcomes `results` of initStrategicEngine; it
\* returns its cleanup function.
MountBody(mic, results) ==
  /\ initialized' = TRUE
  /\ transcriptions' = <<Entry(WELCOME_TEXT, "model")>>
  /\ \E ok \in results :
       IF ok
       THEN /\ chatRef' = TRUE
            /\ chatsCreated' = chatsCreated + 1
            /\ ctxOut' \in {"suspended", "running"}
            /\ welcomeTimer' = TRUE
            /\ IF mic
               THEN live' = "getUserMedia" /\ UNCHANGED status
               ELSE status' = "listening" /\ UNCHANGED live
            /\ lastOp' = Other
       ELSE /\ status' = "listening"
            /\ lastOp' = Op("failEngineMount")
            /\ UNCHANGED <<chatRef, chatsCreated, ctxOut, welcomeTimer, live>>
  /\ cleanup' = TRUE

\* The first run of the mount effect.
Mount ==
  /\ Idle
  /\ EffectRuns
  /\ MountBody(micEnabled, InitStrategicEngineResults)
  /\ emptied' = FALSE
  /\ UNCHANGED <<micEnabled, exited, trackLive, streamingResponse, textInput, streamRef,
                 sessionRef, apiKey, audio, clock, audioCount, liveDecoding, decodingMsgs, ttsTasks,
                 sendTasks, turns, run, cur>>

\* setTimeout(() => playTTS(WELCOME_TEXT), 300)
WelcomeTimerFires ==
  /\ Idle
  /\ welcomeTimer
  /\ welcomeTimer' = FALSE
  /\ PlayTTSStart
  /\ emptied' = FALSE
  /\ lastOp' = Other
  /\ UNCHANGED <<ui, texts, refs, audio, clock, audioCount, liveVars, sendTasks, turns, run, cur>>

\* ------------------------------------------------------------------ playTTS

\* generateContent rejects: catch, 'listening'.
TTSSynthFails ==
  /\ Idle
  /\ ttsTasks["synth"] > 0
  /\ ttsTasks' = [ttsTasks EXCEPT !["synth"] = @ - 1]
  /\ status' = "listening"
  /\ emptied' = FALSE
  /\ lastOp' = Op("failSynth")
  /\ UNCHANGED <<ui, texts, refs, audio, env, liveVars, sendTasks,
                 turns, run, cur>>

\* generateContent resolves without audio data: the else branch, 'listening'.
TTSNoAudio ==
  /\ Idle
  /\ ttsTasks["synth"] > 0
  /\ ttsTasks' = [ttsTasks EXCEPT !["synth"] = @ - 1]
  /\ status' = "listening"
  /\ emptied' = FALSE
  /\ lastOp' = Other
  /\ UNCHANGED <<ui, texts, refs, audio, env, liveVars, sendTasks,
                 turns, run, cur>>

\* generateContent resolves with audio data: await resumeAudio(), which waits
\* for ctx.resume() when the context is suspended, then setStatus('speaking')
\* and the await of decodeAudioData.
TTSAudio(maxChunks) ==
  /\ Idle
  /\ ttsTasks["synth"] > 0
  /\ ctxOut # "none"
  /\ audioCount < maxChunks
  /\ audioCount' = audioCount + 1
  /\ IF ctxOut = "suspended"
     THEN /\ ttsTasks' = [ttsTasks EXCEPT !["synth"] = @ - 1, !["resume"] = @ + 1]
          /\ UNCHANGED status
     ELSE /\ ttsTasks' = [ttsTasks EXCEPT !["synth"] = @ - 1, !["decode"] = @ + 1]
          /\ status' = "speaking"
  /\ emptied' = FALSE
  /\ lastOp' = Other
  /\ UNCHANGED <<ui, texts, refs, audio, clock, welcomeTimer, liveVars, sendTasks,
                 turns, run, cur>>

\* ctx.resume() resolved for a playTTS invocation.
TTSResumed ==
  /\ Idle
  /\ ttsTasks["resume"] > 0
  /\ ttsTasks' = [ttsTasks EXCEPT !["resume"] = @ - 1, !["decode"] = @ + 1]
  /\ ctxOut' = "running"
  /\ status' = "speaking"
  /\ emptied' = FALSE
  /\ lastOp' = Other
  /\ UNCHANGED <<ui, texts, chatRef, chatsCreated, streamRef, sessionRef, initialized, apiKey,
                 audio, env, liveVars, sendTasks, turns, run, cur>>

\* decodeAudioData resolved: create the source and schedule it.
TTSDecoded(dur) ==
  /\ Idle
  /\ ttsTasks["decode"] > 0
  /\ ttsTasks' = [ttsTasks EXCEPT !["decode"] = @ - 1]
  /\ ScheduleChunk(dur, 0)
  /\ emptied' = FALSE
  /\ lastOp' = [op |-> "schedule", id |-> nextSrc + 1]
  /\ UNCHANGED <<status, ui, texts, refs, env, liveVars, sendTasks,
                 turns, run, cur>>

\* decodeAudioData rejects inside playTTS: catch, 'listening'.
TTSDecodeFails ==
  /\ Idle
  /\ ttsTasks["decode"] > 0
  /\ ttsTasks' = [ttsTasks EXCEPT !["decode"] = @ - 1]
  /\ status' = "listening"
  /\ emptied' = FALSE
  /\ lastOp' = Op("failTTSDecode")
  /\ UNCHANGED <<ui, texts, refs, audio, env, liveVars, sendTasks,
                 turns, run, cur>>

\* ------------------------------------------------------------- live session

\* getUserMedia resolves: streamRef is set and ai.live.connect is called.
GetUserMediaOk ==
  /\ Idle
  /\ live = "getUserMedia"
  /\ streamRef' = TRUE
  /\ trackLive' = TRUE
  /\ live' = "connecting"
  /\ emptied' = FALSE
  /\ lastOp' = Other
  /\ UNCHANGED <<status, micEnabled, exited, cleanup, texts, chatRef, chatsCreated, ctxOut, sessionRef, initialized, apiKey,
                 audio, env, liveDecoding, decodingMsgs, ttsTasks, sendTasks,
                 turns, run, cur>>

\* Mutant of GetUserMediaFails: the catch block leaves the status alone.
GetUserMediaFailsKeepsStatus ==
  /\ Idle
  /\ live = "getUserMedia"
  /\ live' = "failed"
  /\ emptied' = FALSE
  /\ lastOp' = Op("failGetUserMedia")
  /\ UNCHANGED <<status, ui, texts, refs, audio, env, liveDecoding, decodingMsgs,
                 ttsTasks, sendTasks, turns, run, cur>>

\* getUserMedia rejects (permission denied, no microphone): catch, 'listening'.
GetUserMediaFails ==
  /\ Idle
  /\ live = "getUserMedia"
  /\ live' = "failed"
  /\ status' = "listening"
  /\ emptied' = FALSE
  /\ lastOp' = Op("failGetUserMedia")
  /\ UNCHANGED <<ui, texts, refs, audio, env, liveDecoding, decodingMsgs,
                 ttsTasks, sendTasks, turns, run, cur>>

\* The connect promise rejects: catch, 'listening'.
LiveConnectFails ==
  /\ Idle
  /\ live = "connecting"
  /\ live' = "failed"
  /\ status' = "listening"
  /\ emptied' = FALSE
  /\ lastOp' = Op("failConnect")
  /\ UNCHANGED <<ui, texts, refs, audio, env, liveDecoding, decodingMsgs,
                 ttsTasks, sendTasks, turns, run, cur>>

\* callbacks.onopen
LiveOnOpen ==
  /\ Idle
  /\ live = "connecting"
  /\ live' = "open"
  /\ status' = "listening"
  /\ emptied' = FALSE
  /\ lastOp' = Other
  /\ UNCHANGED <<ui, texts, refs, audio, env, liveDecoding, decodingMsgs,
                 ttsTasks, sendTasks, turns, run, cur>>

\* sessionRef.current = await sessionPromise
LiveResolved ==
  /\ Idle
  /\ live = "open"
  /\ ~sessionRef
  /\ sessionRef' = TRUE
  /\ emptied' = FALSE
  /\ lastOp' = Other
  /\ UNCHANGED <<status, ui, texts, chatRef, chatsCreated, ctxOut, streamRef, initialized, apiKey,
                 audio, env, liveVars, ttsTasks, sendTasks, turns, run, cur>>

\* callbacks.onerror
LiveOnError ==
  /\ Idle
  /\ live = "open"
  /\ status' = "listening"
  /\ emptied' = FALSE
  /\ lastOp' = Op("failLive")
  /\ UNCHANGED <<ui, texts, refs, audio, env, liveVars, ttsTasks,
                 sendTasks, turns, run, cur>>

\* callbacks.onmessage: the statements up to the await of decodeAudioData are
\* left in `run`.
OnMessageStatements(isInterrupted, hasAudio) ==
  (IF isInterrupted THEN <<"stopAllAudio">> ELSE <<>>)
    \o (IF hasAudio /\ ctxOut # "none" THEN <<"liveBuffering">> ELSE <<>>)

LiveOnMessage(isInterrupted, hasAudio, maxChunks) ==
  /\ Idle
  /\ live = "open"
  /\ IF hasAudio
     THEN audioCount < maxChunks /\ audioCount' = audioCount + 1
     ELSE UNCHANGED audioCount
  /\ run' = OnMessageStatements(isInterrupted, hasAudio)
  /\ emptied' = FALSE
  /\ lastOp' = Other
  /\ UNCHANGED <<status, ui, texts, refs, audio, clock, welcomeTimer, live,
                 liveDecoding, decodingMsgs, ttsTasks, sendTasks, turns, cur>>

\* setStatus('buffering') and the await of decodeAudioData in onmessage.
LiveBuffering ==
  /\ run # <<>> /\ Head(run) = "liveBuffering"
  /\ run' = Tail(run)
  /\ status' = "buffering"
  /\ liveDecoding' = liveDecoding + 1
  /\ decodingMsgs' = decodingMsgs \cup {audioCount}
  /\ lastOp' = Other
  /\ UNCHANGED <<ui, texts, refs, audio, env, live,
                 ttsTasks, sendTasks, turns, cur, emptied>>

\* decodeAudioData resolved in onmessage: schedule the source; setStatus('speaking')
\* is the next statement.  The promises of two messages settle in either order.
LiveDecoded(dur) ==
  /\ Idle
  /\ liveDecoding > 0
  /\ liveDecoding' = liveDecoding - 1
  /\ \E m \in decodingMsgs :
       /\ decodingMsgs' = decodingMsgs \ {m}
       /\ ScheduleChunk(dur, m)
  /\ run' = <<"liveSpeaking">>
  /\ emptied' = FALSE
  /\ lastOp' = [op |-> "schedule", id |-> nextSrc + 1]
  /\ UNCHANGED <<status, ui, texts, refs, env, live,
                 ttsTasks, sendTasks, turns, cur>>

LiveSpeaking ==
  /\ run # <<>> /\ Head(run) = "liveSpeaking"
  /\ run' = Tail(run)
  /\ status' = "speaking"
  /\ lastOp' = Other
  /\ UNCHANGED <<ui, texts, refs, audio, env, liveVars, ttsTasks,
                 sendTasks, turns, cur, emptied>>

\* decodeAudioData rejects in onmessage: nothing catches it, the invocation ends.
LiveDecodeFails ==
  /\ Idle
  /\ liveDecoding > 0
  /\ liveDecoding' = liveDecoding - 1
  /\ \E m \in decodingMsgs : decodingMsgs' = decodingMsgs \ {m}
  /\ emptied' = FALSE
  /\ lastOp' = Op("failLiveDecode")
  /\ UNCHANGED <<status, ui, texts, refs, audio, env, live,
                 ttsTasks, sendTasks, turns, run, cur>>

\* The stopAllAudio statement of onmessage and of handleSendText.
StopAllAudioStmt ==
  /\ run # <<>> /\ Head(run) = "stopAllAudio"
  /\ run' = Tail(run)
  /\ StopAllAudio
  /\ lastOp' = Op("stopAllAudio")
  /\ UNCHANGED <<ui, texts, refs, env, liveVars, ttsTasks, sendTasks,
                 turns, cur>>

\* ----------------------------------------------------------- handleSendText

\* onChange of the input field.  The user acts on a mounted component: React
\* runs the mount effect before it handles the first input event.
SetTextInput(v, maxTurns) ==
  /\ Idle
  /\ initialized
  /\ ~exited
  /\ v # textInput
  /\ turns < maxTurns
  /\ textInput' = v
  /\ emptied' = FALSE
  /\ lastOp' = Other
  /\ UNCHANGED <<status, ui, transcriptions, streamingResponse, refs, audio, env, liveVars, ttsTasks, sendTasks, turns, run, cur>>

\* Mutant of SubmitDisabled: the button is also disabled while there is no
\* backend handle.
SubmitDisabledNoHandle ==
  \/ Trim(textInput) = <<>>
  \/ streamingResponse # <<>>
  \/ status = "processing"
  \/ status = "awaiting"
  \/ ~chatRef

\* The disabled attribute of the SEND button.
SubmitDisabled ==
  \/ Trim(textInput) = <<>>
  \/ streamingResponse # <<>>
  \/ status = "processing"
  \/ status = "awaiting"

\* Mutant of SendStatements: the user's entry is not appended.
SendStatementsNoUser == <<"stopAllAudio", "engine", "processing", "awaiting">>

\* Mutant of SendStatements: the request is sent without stopping the playback.
SendStatementsNoStop == <<"appendUser", "engine", "processing", "awaiting">>

\* The statements of handleSendText that follow `await resumeAudio()`.
SendStatements == <<"appendUser", "stopAllAudio", "engine", "processing", "awaiting">>

\* handleSendText is invoked by a click on the button (only when it is not
\* disabled) or by the Enter key in the input (always).  A blank input returns
\* at once; otherwise the handler awaits resumeAudio(), which waits for
\* ctx.resume() only when the output context is suspended.
HandleSendText(via, maxTurns) ==
  /\ Idle
  /\ initialized
  /\ ~exited
  /\ via = "click" => ~SubmitDisabled
  /\ LET msg == Trim(textInput) IN
       IF msg = <<>>
       THEN /\ lastOp' = Op("submit")
            /\ UNCHANGED <<sendTasks, turns, run, cur>>
       ELSE /\ turns < maxTurns
            /\ turns' = turns + 1
            /\ lastOp' = Op("submit")
            /\ LET t == [id |-> turns + 1, pc |-> "resume", msg |-> msg,
                         fullText |-> <<>>, n |-> 0, frags |-> <<>>] IN
                 IF ctxOut = "suspended"
                 THEN sendTasks' = sendTasks \cup {t} /\ UNCHANGED <<run, cur>>
                 ELSE run' = SendStatements /\ cur' = t /\ UNCHANGED sendTasks
  /\ emptied' = FALSE
  /\ UNCHANGED <<status, ui, texts, refs, audio, env, liveVars,
                 ttsTasks>>

\* ctx.resume() resolved for a handleSendText invocation.
SendResumed(t) ==
  /\ Idle
  /\ t \in sendTasks /\ t.pc = "resume"
  /\ sendTasks' = sendTasks \ {t}
  /\ ctxOut' = "running"
  /\ cur' = t
  /\ run' = SendStatements
  /\ emptied' = FALSE
  /\ lastOp' = Other
  /\ UNCHANGED <<status, ui, texts, chatRef, chatsCreated, streamRef, sessionRef, initialized,
                 apiKey, audio, env, liveVars, ttsTasks, turns>>

\* setTranscriptions(prev => [...prev, user entry]); setTextInput('')
AppendUser ==
  /\ run # <<>> /\ Head(run) = "appendUser"
  /\ run' = Tail(run)
  /\ transcriptions' = AppendEntry(transcriptions, Entry(cur.msg, "user"))
  /\ textInput' = <<>>
  /\ lastOp' = Other
  /\ UNCHANGED <<status, ui, streamingResponse, refs, audio, env,
                 liveVars, ttsTasks, sendTasks, turns, cur, emptied>>

\* Mutant of NeedsEngine: every submit creates a handle.
NeedsEngineAlways == TRUE

\* if (!chatRef.current)
NeedsEngine == ~chatRef

\* Mutant of EnsureEngine: the handler does not return after the error entry.
EnsureEngineNoReturn ==
  /\ run # <<>> /\ Head(run) = "engine"
  /\ \E ok \in (IF NeedsEngine THEN InitStrategicEngineResults ELSE {TRUE}) :
       IF ok
       THEN /\ chatRef' = TRUE
            /\ chatsCreated' = (IF NeedsEngine THEN chatsCreated + 1 ELSE chatsCreated)
            /\ run' = Tail(run)
            /\ lastOp' = Other
            /\ UNCHANGED <<status, transcriptions, cur>>
       ELSE /\ transcriptions' = AppendEntry(transcriptions, Entry(LINK_FAILURE_TEXT, "model"))
            /\ status' = "listening"
            /\ run' = Tail(run)
            /\ lastOp' = Op("failEngineSubmit")
            /\ UNCHANGED <<chatRef, chatsCreated, cur>>
  /\ UNCHANGED <<ui, streamingResponse, textInput, ctxOut, streamRef, sessionRef,
                 initialized, apiKey, audio, env, liveVars, ttsTasks,
                 sendTasks, turns, emptied>>

\* if (!chatRef.current) { if (!initStrategicEngine()) { error entry; 'listening'; return } }
EnsureEngine ==
  /\ run # <<>> /\ Head(run) = "engine"
  /\ \E ok \in (IF NeedsEngine THEN InitStrategicEngineResults ELSE {TRUE}) :
       IF ok
       THEN /\ chatRef' = TRUE
            /\ chatsCreated' = (IF NeedsEngine THEN chatsCreated + 1 ELSE chatsCreated)
            /\ run' = Tail(run)
            /\ lastOp' = Other
            /\ UNCHANGED <<status, transcriptions, cur>>
       ELSE /\ transcriptions' = AppendEntry(transcriptions, Entry(LINK_FAILURE_TEXT, "model"))
            /\ status' = "listening"
            /\ run' = <<>>
            /\ cur' = NoTask
            /\ lastOp' = Op("failEngineSubmit")
            /\ UNCHANGED <<chatRef, chatsCreated>>
  /\ UNCHANGED <<ui, streamingResponse, textInput, ctxOut, streamRef, sessionRef,
                 initialized, apiKey, audio, env, liveVars, ttsTasks,
                 sendTasks, turns, emptied>>

\* setStatus('processing')
SetProcessing ==
  /\ run # <<>> /\ Head(run) = "processing"
  /\ run' = Tail(run)
  /\ status' = "processing"
  /\ lastOp' = Other
  /\ UNCHANGED <<ui, texts, refs, audio, env, liveVars, ttsTasks,
                 sendTasks, turns, cur, emptied>>

\* setStatus('awaiting'); await chatRef.current.sendMessageStream({ message: msg })
SetAwaiting ==
  /\ run # <<>> /\ Head(run) = "awaiting"
  /\ run' = Tail(run)
  /\ status' = "awaiting"
  /\ sendTasks' = sendTasks \cup {[cur EXCEPT !.pc = "sent"]}
  /\ cur' = NoTask
  /\ lastOp' = Op("sendMessageStream")
  /\ UNCHANGED <<ui, texts, refs, audio, env, liveVars, ttsTasks,
                 turns, emptied>>

Outstanding(t) == t.pc \in {"sent", "stream"}

\* Mutant of Accumulate: the fragment is put in front of the text.
AccumulateInFront(fullText, frag) == frag \o fullText

\* fullText += chunk.text || ''
Accumulate(fullText, frag) == fullText \o frag

\* One iteration of `for await (const chunk of stream)`.  The field frags is
\* history: the fragments in arrival order.
StreamFragment(t, frag, maxFrag) ==
  /\ Idle
  /\ t \in sendTasks /\ Outstanding(t)
  /\ t.n < maxFrag
  /\ LET fullText == Accumulate(t.fullText, frag) IN
       /\ sendTasks' = (sendTasks \ {t}) \cup
                         {[t EXCEPT !.pc = "stream", !.fullText = fullText, !.n = @ + 1,
                                    !.frags = Append(@, frag)]}
       /\ streamingResponse' = fullText
  /\ emptied' = FALSE
  /\ lastOp' = Other
  /\ UNCHANGED <<status, ui, transcriptions, textInput, refs, audio, env, liveVars, ttsTasks, turns, run, cur>>

\* The stream completes: commit the reply, clear the buffer, call playTTS.
StreamDone(t) ==
  /\ Idle
  /\ t \in sendTasks /\ Outstanding(t)
  /\ sendTasks' = sendTasks \ {t}
  /\ cur' = t
  /\ run' = <<"commit", "playTTS">>
  /\ emptied' = FALSE
  /\ lastOp' = Other
  /\ UNCHANGED <<status, ui, texts, refs, audio, env, liveVars,
                 ttsTasks, turns>>

Commit ==
  /\ run # <<>> /\ Head(run) = "commit"
  /\ run' = Tail(run)
  /\ transcriptions' = AppendEntry(transcriptions, Entry(cur.fullText, "model"))
  /\ streamingResponse' = <<>>
  /\ lastOp' = Op("commit")
  /\ UNCHANGED <<status, ui, textInput, refs, audio, env, liveVars,
                 ttsTasks, sendTasks, turns, cur, emptied>>

\* playTTS(fullText), up to its await of generateContent.
PlayTTSStmt ==
  /\ run # <<>> /\ Head(run) = "playTTS"
  /\ run' = Tail(run)
  /\ PlayTTSStart
  /\ cur' = NoTask
  /\ lastOp' = Other
  /\ UNCHANGED <<ui, texts, refs, audio, env, liveVars, sendTasks,
                 turns, emptied>>

\* Mutant of StreamFails: the catch block appends no entry.
StreamFailsSilent(t) ==
  /\ Idle
  /\ t \in sendTasks /\ Outstanding(t)
  /\ sendTasks' = sendTasks \ {t}
  /\ status' = "listening"
  /\ emptied' = FALSE
  /\ lastOp' = Op("failStream")
  /\ UNCHANGED <<ui, texts, refs, audio, env, liveVars, ttsTasks, turns, run, cur>>

\* sendMessageStream rejects or the iteration throws: catch, error entry, 'listening'.
StreamFails(t) ==
  /\ Idle
  /\ t \in sendTasks /\ Outstanding(t)
  /\ sendTasks' = sendTasks \ {t}
  /\ transcriptions' = AppendEntry(transcriptions, Entry(LINE_INTERRUPTED_TEXT, "model"))
  /\ status' = "listening"
  /\ emptied' = FALSE
  /\ lastOp' = Op("failStream")
  /\ UNCHANGED <<ui, streamingResponse, textInput, refs, audio, env,
                 liveVars, ttsTasks, turns, run, cur>>

\* ------------------------------------------------- effect cleanup and exit

\* The function the mount effect returned: close the live session when
\* sessionRef.current holds it, stop the tracks when streamRef.current holds
\* the stream.  It runs at most once: the effect's later runs return at the
\* `initialized` check and register nothing.
RunCleanup ==
  /\ IF cleanup
     THEN /\ live' = (IF sessionRef THEN "closed" ELSE live)
          /\ trackLive' = FALSE
     ELSE UNCHANGED <<live, trackLive>>
  /\ cleanup' = FALSE

\* onExit: App sets consultationMode to null and the component is unmounted.
\* Timers, promises, sources and the callbacks of the live session are not
\* owned by React and go on.
Exit ==
  /\ Idle
  /\ initialized
  /\ ~exited
  /\ exited' = TRUE
  /\ RunCleanup
  /\ emptied' = FALSE
  /\ lastOp' = Op("exit")
  /\ UNCHANGED <<status, micEnabled, texts, refs, audio, env, liveDecoding, decodingMsgs, ttsTasks,
                 sendTasks, turns, run, cur>>

\* The microphone button: setMicEnabled(!micEnabled).  micEnabled is a
\* dependency of the mount effect, so the cleanup runs and the effect runs
\* again with the new value; it returns at the check of the flag.
ToggleMic ==
  /\ Idle
  /\ initialized
  /\ ~exited
  /\ micEnabled' = ~micEnabled
  /\ IF EffectRuns
     THEN /\ MountBody(~micEnabled, InitStrategicEngineResults)
          /\ trackLive' = (IF cleanup THEN FALSE ELSE trackLive)
          /\ UNCHANGED <<streamingResponse, textInput, streamRef, sessionRef, apiKey,
                         clock, audioCount>>
     ELSE /\ RunCleanup
          /\ lastOp' = Other
          /\ UNCHANGED <<status, texts, refs, env>>
  /\ emptied' = FALSE
  /\ UNCHANGED <<exited, audio, liveDecoding, decodingMsgs, ttsTasks, sendTasks, turns, run, cur>>

\* ------------------------------------ the revision that retries the engine
\* src/unnamed/part_000 holds an earlier revision of the component (lines
\* 313-640).  Its handleSendText is the same up to stopAllAudio, and so are its
\* stream loop, its commit and the start of playTTS while the speaker button
\* is left alone; initStrategicEngine, the engine check and the catch differ.

\* initStrategicEngine of that revision: the key is not looked at; TRUE unless
\* the constructor or ai.chats.create throws.
InitStrategicEngineRev2Results == {TRUE, FALSE}

\* One call of that initStrategicEngine: chatRef is assigned on success only.
InitStrategicEngineRev2(ok) ==
  IF ok
  THEN chatRef' = TRUE /\ chatsCreated' = chatsCreated + 1
  ELSE UNCHANGED <<chatRef, chatsCreated>>

\* The first run of the mount effect of that revision.
MountRev2 ==
  /\ Idle
  /\ EffectRuns
  /\ MountBody(micEnabled, InitStrategicEngineRev2Results)
  /\ emptied' = FALSE
  /\ UNCHANGED <<micEnabled, exited, trackLive, streamingResponse, textInput, streamRef,
                 sessionRef, apiKey, audio, clock, audioCount, liveDecoding, decodingMsgs,
                 ttsTasks, sendTasks, turns, run, cur>>

\* if (!chatRef.current) { if (!initStrategicEngine()) { error entry;
\* 'listening'; initStrategicEngine() } } -- the handler goes on after the retry.
EnsureEngineRev2 ==
  /\ run # <<>> /\ Head(run) = "engine"
  /\ run' = Tail(run)
  /\ IF chatRef
     THEN /\ lastOp' = Other
          /\ UNCHANGED <<chatRef, chatsCreated, status, transcriptions>>
     ELSE \E ok \in InitStrategicEngineRev2Results :
            IF ok
            THEN /\ InitStrategicEngineRev2(TRUE)
                 /\ lastOp' = Other
                 /\ UNCHANGED <<status, transcriptions>>
            ELSE /\ transcriptions' =
                      AppendEntry(transcriptions, Entry(LINK_DROPPED_TEXT, "model"))
                 /\ status' = "listening"
                 /\ \E retry \in InitStrategicEngineRev2Results :
                      InitStrategicEngineRev2(retry)
                 /\ lastOp' = Op("failEngineSubmit")
  /\ UNCHANGED <<ui, streamingResponse, textInput, ctxOut, streamRef, sessionRef,
                 initialized, apiKey, audio, env, liveVars, ttsTasks,
                 sendTasks, turns, cur, emptied>>

\* setStatus('awaiting'); await chatRef.current!.sendMessageStream(...).  On a
\* null chatRef.current the call throws a TypeError inside the try, and the
\* catch runs at once: error entry, 'listening', initStrategicEngine().
SetAwaitingRev2 ==
  /\ run # <<>> /\ Head(run) = "awaiting"
  /\ run' = Tail(run)
  /\ cur' = NoTask
  /\ IF chatRef
     THEN /\ status' = "awaiting"
          /\ sendTasks' = sendTasks \cup {[cur EXCEPT !.pc = "sent"]}
          /\ lastOp' = Op("sendMessageStream")
          /\ UNCHANGED <<transcriptions, chatRef, chatsCreated>>
     ELSE /\ transcriptions' =
               AppendEntry(transcriptions, Entry(LINE_RESYNC_TEXT, "model"))
          /\ status' = "listening"
          /\ \E ok \in InitStrategicEngineRev2Results : InitStrategicEngineRev2(ok)
          /\ lastOp' = Op("failSendNoHandle")
          /\ UNCHANGED sendTasks
  /\ UNCHANGED <<ui, streamingResponse, textInput, ctxOut, streamRef, sessionRef,
                 initialized, apiKey, audio, env, liveVars, ttsTasks, turns, emptied>>

\* The request or the stream fails: the catch of that revision appends its
\* entry, sets 'listening' and creates the handle again.
StreamFailsRev2(t) ==
  /\ Idle
  /\ t \in sendTasks /\ Outstanding(t)
  /\ sendTasks' = sendTasks \ {t}
  /\ transcriptions' = AppendEntry(transcriptions, Entry(LINE_RESYNC_TEXT, "model"))
  /\ status' = "listening"
  /\ \E ok \in InitStrategicEngineRev2Results : InitStrategicEngineRev2(ok)
  /\ emptied' = FALSE
  /\ lastOp' = Op("failStream")
  /\ UNCHANGED <<ui, streamingResponse, textInput, ctxOut, streamRef, sessionRef,
                 initialized, apiKey, audio, env, liveVars, ttsTasks, turns, run, cur>>

\* ------------------------------------------------------------ specification
\* Start-up, speech synthesis, playback and the output clock.
PlaybackNext(maxTime, maxChunks) ==
  \/ Mount
  \/ WelcomeTimerFires
  \/ Tick(maxTime)
  \/ \E nd \in nodes : OnEnded(nd)
  \/ TTSSynthFails
  \/ TTSNoAudio
  \/ TTSAudio(maxChunks)
  \/ TTSResumed
  \/ \E dur \in Durations : TTSDecoded(dur)
  \/ TTSDecodeFails
  \/ StopAllAudioStmt

\* The live session of voice mode.
LiveNext(maxChunks) ==
  \/ GetUserMediaOk
  \/ GetUserMediaFails
  \/ LiveConnectFails
  \/ LiveOnOpen
  \/ LiveResolved
  \/ LiveOnError
  \/ \E isInterrupted \in BOOLEAN, hasAudio \in BOOLEAN :
       LiveOnMessage(isInterrupted, hasAudio, maxChunks)
  \/ LiveBuffering
  \/ \E dur \in Durations : LiveDecoded(dur)
  \/ LiveSpeaking
  \/ LiveDecodeFails

\* The typed-turn path.
TurnNext(maxTurns, maxFrag) ==
  \/ \E v \in InputTexts : SetTextInput(v, maxTurns)
  \/ \E via \in {"click", "enter"} : HandleSendText(via, maxTurns)
  \/ \E t \in sendTasks : SendResumed(t)
  \/ AppendUser
  \/ EnsureEngine
  \/ SetProcessing
  \/ SetAwaiting
  \/ \E t \in sendTasks, frag \in Fragments : StreamFragment(t, frag, maxFrag)
  \/ \E t \in sendTasks : StreamDone(t)
  \/ Commit
  \/ PlayTTSStmt
  \/ \E t \in sendTasks : StreamFails(t)

\* A session of either mode with typed turns, speech output and the live session.
Next == PlaybackNext(MaxTime, MaxChunks) \/ LiveNext(MaxChunks) \/ TurnNext(MaxTurns, MaxFrag)
Spec == Init /\ [][Next]_vars

\* A session in which the user types nothing: greeting, live session, scheduler.
AudioOnlyNext == PlaybackNext(MaxAudioTime, MaxAudioChunks) \/ LiveNext(MaxAudioChunks)
SpecAudio == Init /\ [][AudioOnlyNext]_vars

\* A message-mode session (preferredMode = 'message', no live session) with
\* several typed turns.
InitMessage == Init /\ ~micEnabled
TextNext == PlaybackNext(MaxTextTime, MaxTextChunks) \/ TurnNext(MaxTextTurns, MaxTextFrag)
SpecTurns == InitMessage /\ [][TextNext]_vars

\* A session the user leaves, or whose microphone button the user presses.
ExitNext ==
  \/ PlaybackNext(MaxExitTime, MaxExitChunks)
  \/ LiveNext(MaxExitChunks)
  \/ Exit
  \/ ToggleMic
SpecExit == Init /\ [][ExitNext]_vars

\* A message-mode session in which the typed turns are the only activity: the
\* greeting timer has not fired and the speech synthesis does not fail.  The
\* output context is running whenever playTTS is called: the submit resumed it.
SoloNext ==
  \/ Mount
  \/ Tick(MaxSoloTime)
  \/ \E nd \in nodes : OnEnded(nd)
  \/ TTSAudio(MaxSoloChunks)
  \/ \E dur \in Durations : TTSDecoded(dur)
  \/ StopAllAudioStmt
  \/ \E v \in InputTexts : SetTextInput(v, MaxSoloTurns)
  \/ \E via \in {"click", "enter"} : HandleSendText(via, MaxSoloTurns)
  \/ \E t \in sendTasks : SendResumed(t)
  \/ AppendUser
  \/ EnsureEngine
  \/ SetProcessing
  \/ SetAwaiting
  \/ \E t \in sendTasks, frag \in Fragments : StreamFragment(t, frag, MaxSoloFrag)
  \/ \E t \in sendTasks : StreamDone(t)
  \/ Commit
  \/ PlayTTSStmt
  \/ \E t \in sendTasks : StreamFails(t)
SpecSolo == InitMessage /\ [][SoloNext]_vars

\* A session of either mode in which the user types and presses the
\* microphone button; no audio is played and the live session is not opened.
MountNext ==
  \/ Mount
  \/ ToggleMic
  \/ GetUserMediaOk
  \/ GetUserMediaFails
  \/ StopAllAudioStmt
  \/ \E v \in InputTexts : SetTextInput(v, MaxMountTurns)
  \/ \E via \in {"click", "enter"} : HandleSendText(via, MaxMountTurns)
  \/ \E t \in sendTasks : SendResumed(t)
  \/ AppendUser
  \/ EnsureEngine
  \/ SetProcessing
  \/ SetAwaiting
  \/ \E t \in sendTasks, frag \in Fragments : StreamFragment(t, frag, MaxMountFrag)
  \/ \E t \in sendTasks : StreamDone(t)
  \/ Commit
  \/ PlayTTSStmt
  \/ \E t \in sendTasks : StreamFails(t)
SpecMount == Init /\ [][MountNext]_vars

\* A message-mode session of the revision that retries the engine: typed
\* turns only, no audio played.
Rev2Next ==
  \/ MountRev2
  \/ StopAllAudioStmt
  \/ \E v \in InputTexts : SetTextInput(v, MaxRevTurns)
  \/ \E via \in {"click", "enter"} : HandleSendText(via, MaxRevTurns)
  \/ \E t \in sendTasks : SendResumed(t)
  \/ AppendUser
  \/ EnsureEngineRev2
  \/ SetProcessing
  \/ SetAwaitingRev2
  \/ \E t \in sendTasks, frag \in Fragments : StreamFragment(t, frag, MaxRevFrag)
  \/ \E t \in sendTasks : StreamDone(t)
  \/ Commit
  \/ PlayTTSStmt
  \/ \E t \in sendTasks : StreamFailsRev2(t)
SpecRev2 == InitMessage /\ [][Rev2Next]_vars

\* A session in which the user types nothing, in which every timer fires,
\* every pending promise settles, every callback runs to its end, the clock
\* advances and every source that has played out gets its onended.  Messages
\* and errors of the live session arrive or not, as the backend decides.
FairNext == PlaybackNext(MaxFairTime, MaxFairChunks) \/ LiveNext(MaxFairChunks)
Resolves ==
  \/ PlaybackNext(MaxFairTime, MaxFairChunks)
  \/ GetUserMediaOk
  \/ GetUserMediaFails
  \/ LiveConnectFails
  \/ LiveOnOpen
  \/ LiveResolved
  \/ LiveBuffering
  \/ \E dur \in Durations : LiveDecoded(dur)
  \/ LiveSpeaking
  \/ LiveDecodeFails
SpecFair == Init /\ [][FairNext]_vars /\ WF_vars(Resolves)

\* ------------------------------------------------------------------ claims
RECURSIVE SumDur(_)
SumDur(log) == IF log = <<>> THEN 0 ELSE Head(log).dur + SumDur(Tail(log))

EndOf(e) == e.start + e.dur

\* C1: of the chunks scheduled since the last interruption, by playTTS or by
\* onmessage in any interleaving, each starts at or after the scheduled end of
\* the chunk scheduled before it: no two playback intervals overlap.
C1_NoOverlap ==
  \A k \in 1..(Len(schedLog) - 1) : schedLog[k + 1].start >= EndOf(schedLog[k])

\* A second chunk was scheduled while the first was still to finish.
C1_Witness ==
  /\ Len(schedLog) >= 2
  /\ schedLog[2].now < EndOf(schedLog[1])
  /\ schedLog[2].start = EndOf(schedLog[1])

\* C2: the status is never 'speaking' while the handle set is empty.
C2_SpeakingHasSource == status = "speaking" => sourcesRef # {}

\* C3: no second turn's request is sent while an earlier turn's request is
\* outstanding.
C3_NoConcurrentTurns == Cardinality({t \in sendTasks : Outstanding(t)}) <= 1

\* C4: right after stopAllAudio, whoever called it and whatever the status was,
\* the handle set is empty, the cursor is at the time origin 0 and the status
\* is 'listening'.
C4_StopAllAudioPost ==
  lastOp.op = "stopAllAudio" =>
    /\ sourcesRef = {}
    /\ nextStartTimeRef = 0
    /\ status = "listening"

\* stopAllAudio was called by a submit and stopped a source that had not finished.
C4_Witness ==
  /\ lastOp.op = "stopAllAudio"
  /\ cur.pc = "resume"
  /\ \E nd \in nodes : nd.st = "stopped"

\* C5: the first chunk scheduled after an interruption starts at the value the
\* output clock has when it is scheduled.
C5_FreshStartAfterInterrupt ==
  (interrupted /\ schedLog # <<>>) => schedLog[1].start = schedLog[1].now

\* The interruption stopped a source whose scheduled end, and so the cursor, lay
\* beyond the time at which the next chunk was scheduled.
C5_Witness ==
  /\ interrupted
  /\ schedLog # <<>>
  /\ \E nd \in nodes : nd.st = "stopped" /\ nd.start + nd.dur > schedLog[1].now

\* C6: a step that schedules a chunk starts it at max(clock, cursor), sets the
\* cursor to that start plus the duration and adds the source to the handle
\* set; a step in which a source ends naturally removes it from the set and,
\* when the set is then empty, sets the status to 'listening'.
C6_SchedulerContract ==
  [][/\ nextSrc' = nextSrc + 1 =>
          \E nd \in nodes' \ nodes :
            /\ nd.id = nextSrc'
            /\ nd.start = (IF clock >= nextStartTimeRef THEN clock ELSE nextStartTimeRef)
            /\ nextStartTimeRef' = nd.start + nd.dur
            /\ sourcesRef' = sourcesRef \cup {nd.id}
     /\ \A nd \in nodes \ nodes' :
          nd.st = "scheduled" =>
            /\ nd.id \notin sourcesRef'
            /\ sourcesRef' = {} => status' = "listening"]_vars

\* A scheduled chunk ended naturally and left the handle set empty.
C6_Witness ==
  /\ lastOp.op = "onendedNatural"
  /\ nextSrc >= 1
  /\ sourcesRef = {}
  /\ status = "listening"

BackToBack(log) == \A k \in 2..Len(log) : log[k].now <= EndOf(log[k - 1])

\* C7: when every chunk after the first is scheduled while the clock is at or
\* before the cursor, the span from the first start to the cursor equals the
\* sum of the durations.
C7_Gapless ==
  (schedLog # <<>> /\ BackToBack(schedLog)) =>
    nextStartTimeRef - schedLog[1].start = SumDur(schedLog)

\* Two chunks back to back, the second queued behind the first.
C7_Witness ==
  /\ Len(schedLog) >= 2
  /\ BackToBack(schedLog)
  /\ schedLog[2].now < schedLog[2].start

\* A turn is pending while a typed turn is in flight or a live chunk is being
\* decoded.
NoPendingTurn == sendTasks = {} /\ cur = NoTask /\ liveDecoding = 0

\* C8: when a callback has taken the handle set from non-empty to empty and no
\* turn is pending, the status is 'listening' when the callback ends.
C8_IdleAfterEmpty == (Idle /\ emptied /\ NoPendingTurn) => status = "listening"

\* The last source ended naturally while the status was not yet 'listening'.
C8_Witness ==
  /\ Idle /\ emptied /\ NoPendingTurn
  /\ lastOp.op = "onendedNatural"

FailureOps == {"failEngineMount", "failSynth", "failTTSDecode", "failGetUserMedia",
               "failConnect", "failLive", "failLiveDecode", "failEngineSubmit",
               "failStream"}

\* C9: after every failure, of any kind, the status is 'listening'.
C9_FailureListening == (Idle /\ lastOp.op \in FailureOps) => status = "listening"

SyntheticTexts == {LINK_FAILURE_TEXT, LINE_INTERRUPTED_TEXT}

AppendsSynthetic ==
  \E txt \in SyntheticTexts : transcriptions' = Append(transcriptions, Entry(txt, "model"))

NoTurnInFlight == sendTasks = {} /\ cur = NoTask

\* C11: after any failure, when no turn is in flight and the input is not
\* blank, the SEND button is enabled.
C11_InteractiveAfterFailure ==
  (Idle /\ lastOp.op \in FailureOps /\ NoTurnInFlight /\ Trim(textInput) # <<>>)
    => ~SubmitDisabled

\* The handle could not be created when the session started and nothing has
\* been submitted since.
StartedWithoutHandle == Idle /\ initialized /\ ~chatRef /\ turns = 0

C13_BargeIn ==
  lastOp.op = "sendMessageStream" => (sourcesRef = {} /\ nextStartTimeRef = 0)

\* The request was sent after a source that had not finished was stopped.
C13_Witness ==
  /\ lastOp.op = "sendMessageStream"
  /\ \E nd \in nodes : nd.st = "stopped" /\ nd.start + nd.dur > clock

\* C14: after the exit no live session is open and no microphone track is
\* capturing.
C14_ExitReleasesLine == exited => (live # "open" /\ ~trackLive)

\* C15: after the exit the handle set is empty and no chunk is playing, waiting
\* to play, being synthesized or decoded, and the greeting timer is not pending.
C15_ExitStopsAudio ==
  exited =>
    /\ sourcesRef = {}
    /\ \A nd \in nodes : nd.st # "scheduled"
    /\ \A pc \in DOMAIN ttsTasks : ttsTasks[pc] = 0
    /\ liveDecoding = 0
    /\ ~welcomeTimer

IsBlank(s) == \A i \in 1..Len(s) : s[i] = " "

\* C16: an invocation of handleSendText with an empty or whitespace-only input
\* leaves the transcript, the status, the handle set, the cursor and the
\* pending buffer as they were and starts no request.
C16_BlankSubmitNoOp ==
  [][(lastOp'.op = "submit" /\ IsBlank(textInput)) =>
       UNCHANGED <<transcriptions, status, sourcesRef, nextStartTimeRef, streamingResponse,
                   nodes, sendTasks, run, cur, turns, textInput>>]_vars

\* A whitespace-only input was submitted and nothing came of it.
C16_Witness ==
  /\ lastOp.op = "submit"
  /\ turns = 0
  /\ textInput = <<" ">>
  /\ transcriptions = <<Entry(WELCOME_TEXT, "model")>>

RECURSIVE Concat(_)
Concat(ss) == IF ss = <<>> THEN <<>> ELSE Head(ss) \o Concat(Tail(ss))

\* C17: the commit of a completed reply appends exactly one assistant entry,
\* whose text is the concatenation of the fragments in arrival order, and
\* leaves the pending buffer empty.
C17_CommitConcat ==
  [][lastOp'.op = "commit" =>
       /\ transcriptions' = Append(transcriptions, Entry(Concat(cur.frags), "model"))
       /\ streamingResponse' = <<>>]_vars

\* A reply of two different fragments was committed.
C17_Witness ==
  /\ lastOp.op = "commit"
  /\ cur.frags = << <<"x">>, <<"y">> >>
  /\ transcriptions[Len(transcriptions)] = Entry(<<"x", "y">>, "model")
  /\ streamingResponse = <<>>

TurnChain == {<<"listening", "processing">>, <<"processing", "awaiting">>,
              <<"awaiting", "buffering">>, <<"buffering", "speaking">>,
              <<"speaking", "listening">>}

\* C18: while one typed turn whose calls all succeed is the only activity,
\* every change of the status is the next link of the chain listening,
\* processing, awaiting, buffering, speaking, listening; 'buffering' is entered
\* only after the reply is committed, 'speaking' only once a chunk is in the
\* handle set, and 'speaking' is left only when the handle set is empty.
C18_TurnStatusOrder ==
  [][(turns' = 1 /\ status' # status /\ lastOp'.op \notin FailureOps) =>
       /\ <<status, status'>> \in TurnChain
       /\ status' = "buffering" => lastOp.op = "commit"
       /\ status' = "speaking" => sourcesRef' # {}
       /\ status = "speaking" => sourcesRef' = {}]_vars

DocumentedEdges == {<<"connecting", "listening">>, <<"listening", "processing">>,
                    <<"processing", "listening">>, <<"processing", "awaiting">>,
                    <<"awaiting", "buffering">>, <<"buffering", "speaking">>,
                    <<"speaking", "listening">>}

\* C19: every change of the status is a documented edge or a move to
\* 'listening'.
C19_DocumentedEdgesOnly ==
  [][status' # status =>
       (<<status, status'>> \in DocumentedEdges \/ status' = "listening")]_vars

IsPrefix(a, b) == Len(a) <= Len(b) /\ SubSeq(b, 1, Len(a)) = a

\* C20: every step leaves the transcript as it was or appends entries at its
\* end.
C20_AppendOnly == [][IsPrefix(transcriptions, transcriptions')]_vars

\* The transcript holds the welcome entry, the user's entry and the reply.
C20_Witness ==
  /\ Len(transcriptions) = 3
  /\ transcriptions[1] = Entry(WELCOME_TEXT, "model")
  /\ transcriptions[2].type = "user"
  /\ transcriptions[3].type = "model"
  /\ lastOp.op = "commit"

\* C21: a step that schedules a chunk does not lower the cursor, and the only
\* step that lowers it is stopAllAudio.
C21_CursorMonotone ==
  [][/\ nextSrc' # nextSrc => nextStartTimeRef' >= nextStartTimeRef
     /\ nextStartTimeRef' < nextStartTimeRef => lastOp'.op = "stopAllAudio"]_vars

\* An interruption took the cursor back from the end of a source it stopped,
\* and a chunk scheduled afterwards advanced it again.
C21_Witness ==
  /\ interrupted
  /\ schedLog # <<>>
  /\ nextStartTimeRef = EndOf(schedLog[Len(schedLog)])
  /\ \E nd \in nodes : nd.st = "stopped" /\ nd.start + nd.dur > 0

\* C22: when the handle cannot be created during a submit, the step appends
\* one synthetic error entry right after the user's entry, sets the status to
\* 'listening' and ends the handler: no request and no synthesis is started.
C22_SubmitWithoutHandle ==
  [][lastOp'.op = "failEngineSubmit" =>
       /\ transcriptions[Len(transcriptions)] = Entry(cur.msg, "user")
       /\ transcriptions' = Append(transcriptions, Entry(LINK_FAILURE_TEXT, "model"))
       /\ status' = "listening"
       /\ run' = <<>> /\ cur' = NoTask
       /\ sendTasks' = sendTasks /\ ttsTasks' = ttsTasks
       /\ ~chatRef']_vars

\* The first submit of a session that started without a handle failed too.
C22_Witness ==
  /\ lastOp.op = "failEngineSubmit"
  /\ transcriptions = <<Entry(WELCOME_TEXT, "model"), Entry(<<"a">>, "user"),
                        Entry(LINK_FAILURE_TEXT, "model")>>
  /\ sendTasks = {}

\* C23: a rejected getUserMedia appends nothing to the transcript, sets the
\* status to 'listening' and leaves the chat handle and the typed turns in
\* flight as they are.
C23_MicDenied ==
  [][lastOp'.op = "failGetUserMedia" =>
       /\ transcriptions' = transcriptions
       /\ status' = "listening"
       /\ chatRef' /\ ~exited'
       /\ UNCHANGED <<sendTasks, run, cur, textInput, streamingResponse>>]_vars

\* After the microphone was refused a typed turn went through to its reply.
C23_Witness ==
  /\ live = "failed" /\ ~streamRef
  /\ lastOp.op = "commit"
  /\ Len(transcriptions) = 3

\* C24: stopAllAudio applied to the state it produces changes nothing, and it
\* always completes, finished sources in the set or not: the set is empty, the
\* cursor 0, the status 'listening', and no source loses its ended event.
C24_StopIdempotent ==
  [][lastOp'.op = "stopAllAudio" =>
       /\ sourcesRef' = {} /\ nextStartTimeRef' = 0 /\ status' = "listening"
       /\ {nd.id : nd \in nodes'} = {nd.id : nd \in nodes}
       /\ (sourcesRef = {} /\ nextStartTimeRef = 0 /\ status = "listening") =>
            UNCHANGED <<sourcesRef, nextStartTimeRef, status, nodes>>]_vars

\* stopAllAudio emptied a set whose sources had all finished playing.
C24_Witness ==
  /\ lastOp.op = "stopAllAudio"
  /\ emptied
  /\ \E nd \in nodes : nd.st = "stopped"
  /\ \A nd \in nodes : nd.st = "stopped" => nd.start + nd.dur <= clock

CountType(log, who) == Cardinality({i \in 1..Len(log) : log[i].type = who})

\* Every assistant entry after the welcome entry has a user entry of its own
\* before it.
UserFirst(log) ==
  \A k \in 1..Len(log) :
    CountType(SubSeq(log, 1, k), "model") - 1 <= CountType(SubSeq(log, 1, k), "user")

Completed(t) == Outstanding(t) /\ t \in sendTasks /\ \A u \in sendTasks' : u.id # t.id

\* C26: the step in which a reply stream completes or fails is followed, before
\* any other callback, by the append of that turn's assistant entry, so the
\* assistant entries are in completion order; and every assistant entry has
\* its user entry before it.
C26_CompletionOrder ==
  [][/\ \A t \in sendTasks : Completed(t) =>
          \/ /\ lastOp'.op = "failStream"
             /\ transcriptions' = Append(transcriptions, Entry(LINE_INTERRUPTED_TEXT, "model"))
          \/ /\ cur' = t /\ run' = <<"commit", "playTTS">>
             /\ transcriptions' = transcriptions
     /\ (run # <<>> /\ Head(run) = "commit") =>
          transcriptions' = Append(transcriptions, Entry(cur.fullText, "model"))
     /\ UserFirst(transcriptions')]_vars

\* The second turn's reply was committed while the first turn's request was
\* still outstanding.
C26_Witness ==
  /\ lastOp.op = "commit"
  /\ cur.id = 2
  /\ \E t \in sendTasks : t.id = 1 /\ Outstanding(t)

\* C27: a press of the microphone button leaves the live session and the
\* microphone track as they are.
C27_ToggleKeepsLine ==
  [][micEnabled' # micEnabled => (live' = live /\ trackLive' = trackLive)]_vars

\* C28, for the step that follows an interruption or a barge-in submit: it
\* schedules no chunk and does not set the status to 'speaking', since any
\* chunk it could schedule was synthesized or decoded from work started
\* before.
C28_NoStaleChunk ==
  [][(Idle /\ lastOp.op \in {"stopAllAudio", "sendMessageStream"}) =>
       (nextSrc' = nextSrc /\ (status' = "speaking" => status = "speaking"))]_vars

\* C29: while a typed turn's request is outstanding the status is 'awaiting'.
C29_AwaitingHeld == (\E t \in sendTasks : Outstanding(t)) => status = "awaiting"

\* C30: when no typed turn is in flight the pending buffer is empty.
C30_BufferEmptyWhenIdle == (Idle /\ NoTurnInFlight) => streamingResponse = <<>>

\* C31: a cursor reset to the clock on interruption, instead of to 0, gives
\* every chunk scheduled afterwards the same start time, and the two cursors
\* agree again once a chunk has been scheduled.
C31_ResetEquivalent ==
  /\ \A k \in 1..Len(schedLog) : schedLog[k].alt = schedLog[k].start
  /\ schedLog # <<>> => altCursor = nextStartTimeRef

\* A chunk was scheduled after an interruption that happened at a clock time
\* above 0, so the two cursors differed when the chunk arrived.
C31_Witness ==
  /\ interrupted
  /\ schedLog # <<>>
  /\ schedLog[1].altc > 0
  /\ schedLog[1].altc <= schedLog[1].now

\* The sources of the handle set, as scheduled.
InSet == {nd \in nodes : nd.id \in sourcesRef}

\* C33: chunks of the live session start in the order their messages arrived.
C33_ArrivalOrder ==
  \A i, j \in 1..Len(schedLog) :
    (schedLog[i].msg > 0 /\ schedLog[i].msg < schedLog[j].msg) =>
      schedLog[i].start <= schedLog[j].start

\* C35: the cursor is at or after the end of every source of the handle set,
\* and the intervals of the sources of the handle set are pairwise disjoint.
C35_CursorCoversSet ==
  /\ \A id \in sourcesRef : \E nd \in nodes : nd.id = id
  /\ \A nd \in InSet : nextStartTimeRef >= nd.start + nd.dur
  /\ \A a, b \in InSet :
       a.id # b.id => (a.start + a.dur <= b.start \/ b.start + b.dur <= a.start)

\* Two sources are in the handle set, the second scheduled at the cursor the
\* first one left.
C35_Witness ==
  \E a, b \in InSet :
    /\ a.id # b.id
    /\ b.start = a.start + a.dur
    /\ nextStartTimeRef = b.start + b.dur

\* The invocations of handleSendText suspended at `await resumeAudio()`.
AtResume == {t \in sendTasks : t.pc = "resume"}

\* C34: one typed input is taken by one invocation of handleSendText, so it
\* gives one user entry and one request: no two invocations wait at the
\* initial await with the text that is still in the input box.
C34_OneInvocationPerInput ==
  \A t1, t2 \in AtResume :
    (t1.msg = Trim(textInput) /\ t2.msg = Trim(textInput)) => t1.id = t2.id

\* Entries of a transcript that carry the welcome text.
Welcomes(log) == {k \in 1..Len(log) : log[k].text = WELCOME_TEXT}

\* C36: the flag stays set once the mount effect has run; from then on the
\* welcome entry is the first entry and the only one with its text, and no
\* step, a re-run of the effect after a press of the microphone button
\* included, rewrites it or shortens the transcript.
C36_InitOnce ==
  [][/\ initialized' =>
          /\ transcriptions' # <<>>
          /\ transcriptions'[1] = Entry(WELCOME_TEXT, "model")
          /\ Welcomes(transcriptions') = {1}
     /\ initialized =>
          /\ initialized'
          /\ IsPrefix(transcriptions, transcriptions')]_vars

\* The microphone button was pressed, the effect ran again, and the
\* transcript still holds the welcome entry and the user's entry after it.
C36_Witness ==
  /\ initialized
  /\ ~cleanup
  /\ Len(transcriptions) >= 2
  /\ transcriptions[1] = Entry(WELCOME_TEXT, "model")
  /\ transcriptions[2].type = "user"

\* C37: once chatRef holds a handle, every step, a failed turn included,
\* leaves it in place and creates no other; a session creates at most one.
C37_HandlePersistent ==
  [][/\ chatRef => (chatRef' /\ chatsCreated' = chatsCreated)
     /\ chatsCreated' <= 1]_vars

\* A turn sent on the handle failed, and chatRef still holds that handle.
C37_Witness ==
  /\ lastOp.op = "failStream"
  /\ chatRef
  /\ chatsCreated = 1

\* A source is scheduled to end after the last value the clock takes.
BeyondHorizon ==
  \E nd \in nodes : nd.st = "scheduled" /\ nd.start + nd.dur > MaxFairTime

\* C32: with every pending call settling and every source ending, a status
\* other than 'listening' is followed by 'listening'.
C32_EventuallyListening ==
  (status # "listening") ~> (status = "listening" \/ BeyondHorizon)

\* C38, for the revision that retries the engine: when the handle cannot be
\* created during a submit, the step appends one synthetic error entry right
\* after the user's entry, sets the status to 'listening' and ends the
\* handler, so that no request is attempted.
C38_RetryRevisionStops ==
  [][lastOp'.op = "failEngineSubmit" =>
       /\ transcriptions[Len(transcriptions)] = Entry(cur.msg, "user")
       /\ transcriptions' = Append(transcriptions, Entry(LINK_DROPPED_TEXT, "model"))
       /\ status' = "listening"
       /\ run' = <<>> /\ cur' = NoTask
       /\ sendTasks' = sendTasks]_vars
====
